---- MODULE Spec2Model ----
(***************************************************************************)
(* Row-length analysis engine of csv_tools_rust.                           *)
(*                                                                         *)
(* Two programs analyse the same line-oriented source file:                *)
(*   - csv_row_analyzer_parallel.rs : reads every line, splits the lines   *)
(*     into chunks, one worker thread per chunk, joins the handles in      *)
(*     spawn order, sorts, assigns data_index, writes the reports;         *)
(*   - csv_row_analyzer.rs          : one streaming pass, then the reports.*)
(*                                                                         *)
(* A line is modelled by the number of Unicode scalar values it holds      *)
(* (the only thing `line.chars().count()` reads); a failed read is a       *)
(* record with ok = FALSE.  Floating point values that the reports derive  *)
(* are kept exact: the mean as the pair <<sum, n>>, the variance as the    *)
(* pair <<sum of (n*x - sum)^2, n^3>>, and the 1.5*IQR threshold doubled.  *)
(***************************************************************************)
EXTENDS Integers, Sequences, FiniteSets, TLC

\* ---------------------------------------------------------------- constants

CHARS_PER_PAGE == 3000

WORKER_THREADS == 8

\* ------------------------------------------------------------------- bounds

\* Longest source file (physical lines) of the full pipeline.
MaxLines == 4

\* Longest list of row lengths of the report stage taken alone.
MaxStatLen == 5

\* Largest character count of the single-row inputs of the report stage.
MaxCharCount == 6001

\* Character counts of the lines of the full pipeline.
LineLens == {0, 20, 3001}

\* Character counts of the rows of the report stage taken alone.
StatLens == {10, 20, 30, 40, 1000}

\* Worker counts the pipeline is run with (the program fixes WORKER_THREADS).
WorkerCounts == {1, 2, WORKER_THREADS}

\* ------------------------------------------------------------------ helpers

Min(a, b) == IF a < b THEN a ELSE b

RECURSIVE SeqsUpTo(_, _)
\* All sequences over S of length 0..n.
SeqsUpTo(S, n) ==
    IF n = 0 THEN {<<>>}
    ELSE LET shorter == SeqsUpTo(S, n - 1)
         IN  shorter \cup {Append(s, x) : s \in {t \in shorter : Len(t) = n - 1}, x \in S}

\* A line the reader delivered, and a line whose read failed.
OkLine(c) == [ok |-> TRUE, chars |-> c]

ErrLine == [ok |-> FALSE, chars |-> 0]

\* line.chars().count()
CharsCount(line) == line.chars

\* ------------------------------------------------- parallel: pure operators

\* IngestLine with the read loop given up at the first failed read.
IngestLine_stop_at_error(acc, file_row, line_result) ==
    IF line_result.ok /\ acc.error_count = 0
    THEN [all_lines |-> Append(acc.all_lines, <<file_row, line_result>>),
          error_count |-> acc.error_count]
    ELSE [all_lines |-> acc.all_lines,
          error_count |-> IF line_result.ok THEN acc.error_count ELSE 1]

\* One iteration of the read loop: an Ok line is pushed with its 1-based
\* file_row, a failed read only counts.
IngestLine(acc, file_row, line_result) ==
    IF line_result.ok
    THEN [all_lines |-> Append(acc.all_lines, <<file_row, line_result>>),
          error_count |-> acc.error_count]
    ELSE [all_lines |-> acc.all_lines,
          error_count |-> acc.error_count + 1]

\* LinesPerChunk as the rounded-up quotient.
LinesPerChunk_ceil(total, workers) == (total + workers - 1) \div workers

\* LinesPerChunk giving every line a chunk of its own.
LinesPerChunk_one(total, workers) == 1

\* lines_per_chunk = (all_lines.len() / WORKER_THREADS) + 1
LinesPerChunk(total, workers) == (total \div workers) + 1

RECURSIVE SliceChunks_overlapping(_, _)
\* SliceChunks with each later chunk starting on the last line of the chunk
\* before it.
SliceChunks_overlapping(lines, size) ==
    IF lines = <<>> THEN <<>>
    ELSE LET n == Min(size, Len(lines))
             from == IF n >= 2 THEN n ELSE n + 1
         IN  <<SubSeq(lines, 1, n)>>
             \o (IF n = Len(lines) THEN <<>>
                 ELSE SliceChunks_overlapping(SubSeq(lines, from, Len(lines)), size))

RECURSIVE SliceChunks(_, _)
\* slice.chunks(size): consecutive slices of `size` elements, the last one
\* shorter; no chunk at all for an empty slice.
SliceChunks(lines, size) ==
    IF lines = <<>> THEN <<>>
    ELSE LET n == Min(size, Len(lines))
         IN  <<SubSeq(lines, 1, n)>> \o SliceChunks(SubSeq(lines, n + 1, Len(lines)), size)

RECURSIVE WorkerLoop(_, _, _)
\* The body of a worker thread: one RowEntry per line of the chunk, and the
\* sum of their character counts.
WorkerLoop(chunk, local_row_entries, local_total_chars) ==
    IF chunk = <<>>
    THEN [entries |-> local_row_entries, chars |-> local_total_chars]
    ELSE LET file_row == Head(chunk)[1]
             char_count == CharsCount(Head(chunk)[2])
         IN  WorkerLoop(Tail(chunk),
                        Append(local_row_entries,
                               [file_row |-> file_row, char_count |-> char_count]),
                        local_total_chars + char_count)

\* JoinReady that takes whatever the thread holds without waiting for it.
JoinReady_no_wait(handle) == TRUE

\* handle.join() returns once the thread has returned its result.
JoinReady(handle) == handle.st = "finished"

\* ExtendEntries putting a thread's entries in front of those collected.
ExtendEntries_prepend(all, thread_entries) == thread_entries \o all

\* all_row_entries.extend(thread_entries)
ExtendEntries(all, thread_entries) == all \o thread_entries

\* AddChars with `=` written for `+=`.
AddChars_overwrite(total, thread_chars) == thread_chars

\* total_chars += thread_chars
AddChars(total, thread_chars) == total + thread_chars

RECURSIVE InsertByFileRow(_, _)
\* Stable insertion of e into a list ascending by file_row.
InsertByFileRow(sorted, e) ==
    IF sorted = <<>> THEN <<e>>
    ELSE LET last == sorted[Len(sorted)]
         IN  IF last.file_row <= e.file_row
             THEN Append(sorted, e)
             ELSE Append(InsertByFileRow(SubSeq(sorted, 1, Len(sorted) - 1), e), last)

RECURSIVE SortFrom(_, _)
SortFrom(entries, sorted) ==
    IF entries = <<>> THEN sorted
    ELSE SortFrom(Tail(entries), InsertByFileRow(sorted, Head(entries)))

\* SortByFileRow with the comparison reversed.
SortByFileRow_descending(entries) ==
    LET asc == SortFrom(entries, <<>>)
    IN  [k \in 1..Len(asc) |-> asc[Len(asc) + 1 - k]]

\* all_row_entries.sort_by_key(|entry| entry.file_row): a stable sort.
SortByFileRow(entries) == SortFrom(entries, <<>>)

\* data_index of the entry at 0-based position i of the sorted list.
DataIndex(file_row, i) == IF file_row = 1 THEN -1 ELSE i - 1

\* row_entries: (file_row, data_index, char_count) per sorted entry.
AssignDataIndex(entries) ==
    [k \in 1..Len(entries) |->
        <<entries[k].file_row,
          DataIndex(entries[k].file_row, k - 1),
          entries[k].char_count>>]

\* ----------------------------------------------- reports: pure operators

\* A HashMap is a function on its key set; entry(k).or_insert(v) adds a key.
MapPut(map, k, v) == [x \in DOMAIN map \cup {k} |-> IF x = k THEN v ELSE map[x]]

EmptyMap == [x \in {} |-> 0]

RECURSIVE SumSeq(_)
SumSeq(s) == IF s = <<>> THEN 0 ELSE Head(s) + SumSeq(Tail(s))

\* all_row_lengths: the char_count column of row_entries.
RowLengths(entries) == [k \in 1..Len(entries) |-> entries[k][3]]

RECURSIVE CountLengths(_, _)
\* *row_length_counts.entry(char_count).or_insert(0) += 1, over the lengths.
CountLengths(lengths, counts) ==
    IF lengths = <<>> THEN counts
    ELSE LET c == Head(lengths)
             n == IF c \in DOMAIN counts THEN counts[c] ELSE 0
         IN  CountLengths(Tail(lengths), MapPut(counts, c, n + 1))

RECURSIVE IndicesMap_newest_first(_, _, _)
\* IndicesMap with each row put in front of the rows already listed.
IndicesMap_newest_first(entries, col, map) ==
    IF entries = <<>> THEN map
    ELSE LET c == Head(entries)[3]
             old == IF c \in DOMAIN map THEN map[c] ELSE <<>>
         IN  IndicesMap_newest_first(Tail(entries), col,
                                     MapPut(map, c, <<Head(entries)[col]>> \o old))

RECURSIVE IndicesMap(_, _, _)
\* map.entry(char_count).or_insert_with(Vec::new).push(column `col` of the row)
IndicesMap(entries, col, map) ==
    IF entries = <<>> THEN map
    ELSE LET c == Head(entries)[3]
             old == IF c \in DOMAIN map THEN map[c] ELSE <<>>
         IN  IndicesMap(Tail(entries), col, MapPut(map, c, Append(old, Head(entries)[col])))

RECURSIVE KeysDescending(_)
\* The keys of a set, largest first.
KeysDescending(keys) ==
    IF keys = {} THEN <<>>
    ELSE LET m == CHOOSE k \in keys : \A j \in keys : j <= k
         IN  <<m>> \o KeysDescending(keys \ {m})

RECURSIVE KeysAscending(_)
\* The keys of a set, smallest first.
KeysAscending(keys) ==
    IF keys = {} THEN <<>>
    ELSE LET m == CHOOSE k \in keys : \A j \in keys : k <= j
         IN  <<m>> \o KeysAscending(keys \ {m})

\* length_counts_vec: the (length, count) pairs of the map collected into a
\* vector and sorted by length, descending.  The keys are distinct, so the
\* map's iteration order does not show in the sorted vector.
LengthCountsVec(counts) ==
    LET ks == KeysDescending(DOMAIN counts)
    IN  [k \in 1..Len(ks) |-> <<ks[k], counts[ks[k]]>>]

\* PageBucket rounding down instead of up.
PageBucket_floor(char_count) == char_count \div CHARS_PER_PAGE

\* pages = (char_count + CHARS_PER_PAGE - 1) / CHARS_PER_PAGE
PageBucket(char_count) == (char_count + CHARS_PER_PAGE - 1) \div CHARS_PER_PAGE

RECURSIVE CountPages(_, _)
\* *page_length_counts.entry(pages).or_insert(0) += 1, over the lengths.
CountPages(lengths, counts) ==
    IF lengths = <<>> THEN counts
    ELSE LET pages == PageBucket(Head(lengths))
             n == IF pages \in DOMAIN counts THEN counts[pages] ELSE 0
         IN  CountPages(Tail(lengths), MapPut(counts, pages, n + 1))

\* PageCountsVec sorted the other way round.
PageCountsVec_descending(counts) ==
    LET ks == KeysDescending(DOMAIN counts)
    IN  [k \in 1..Len(ks) |-> <<ks[k], counts[ks[k]]>>]

\* page_counts_vec: (page_length, count) sorted by page length, ascending.
PageCountsVec(counts) ==
    LET ks == KeysAscending(DOMAIN counts)
    IN  [k \in 1..Len(ks) |-> <<ks[k], counts[ks[k]]>>]

RECURSIVE InsertAscending(_, _)
InsertAscending(sorted, x) ==
    IF sorted = <<>> THEN <<x>>
    ELSE LET last == sorted[Len(sorted)]
         IN  IF last <= x
             THEN Append(sorted, x)
             ELSE Append(InsertAscending(SubSeq(sorted, 1, Len(sorted) - 1), x), last)

RECURSIVE SortAscendingFrom(_, _)
SortAscendingFrom(lengths, sorted) ==
    IF lengths = <<>> THEN sorted
    ELSE SortAscendingFrom(Tail(lengths), InsertAscending(sorted, Head(lengths)))

\* SortedCopy without the sort.
SortedCopy_unsorted(lengths) == lengths

\* SortedCopy sorted largest first.
SortedCopy_descending(lengths) ==
    LET up == SortAscendingFrom(lengths, <<>>)
    IN  [k \in 1..Len(up) |-> up[Len(up) + 1 - k]]

\* let mut sorted = lengths.to_vec(); sorted.sort();
SortedCopy(lengths) == SortAscendingFrom(lengths, <<>>)

\* ZeroStatistics with the empty-slice guard gone from the float divisions:
\* mean and variance are 0.0 / 0.0.
ZeroStatistics_unguarded ==
    [min |-> 0, max |-> 0, mean |-> <<0, 0>>, median |-> 0, q1 |-> 0, q3 |-> 0,
     variance |-> <<0, 0>>]

\* The Statistics returned for an empty slice.
ZeroStatistics ==
    [min |-> 0, max |-> 0, mean |-> <<0, 1>>, median |-> 0, q1 |-> 0, q3 |-> 0,
     variance |-> <<0, 1>>]

RECURSIVE SumSquares_about_zero(_, _, _)
\* SumSquares with the mean left out of the differences.
SumSquares_about_zero(sorted, sum, len) ==
    IF sorted = <<>> THEN 0
    ELSE (len * Head(sorted)) * (len * Head(sorted))
         + SumSquares_about_zero(Tail(sorted), sum, len)

RECURSIVE SumSquares(_, _, _)
\* Sum over x of (len*x - sum)^2: len^2 times the sum of the squared
\* differences from the mean.
SumSquares(sorted, sum, len) ==
    IF sorted = <<>> THEN 0
    ELSE (len * Head(sorted) - sum) * (len * Head(sorted) - sum)
         + SumSquares(Tail(sorted), sum, len)

\* SortedIndicesUsed with the lower neighbour read in every case, not only
\* when the averaging branch is taken.
SortedIndicesUsed_always_averaging(len) ==
    {len \div 2 - 1, len \div 2, len \div 4 - 1, len \div 4,
     (3 * len) \div 4 - 1, (3 * len) \div 4}

\* The 0-based positions at which calculate_statistics indexes the sorted
\* copy of a slice of len >= 1 elements: sorted[len / 2] and, for an even
\* len, sorted[len / 2 - 1]; sorted[q1_idx] and, when len % 4 == 0,
\* sorted[q1_idx - 1]; sorted[q3_idx] and, when (3 * len) % 4 == 0,
\* sorted[q3_idx - 1].  (min and max are first() and last(), which return
\* an Option and index nothing.)
SortedIndicesUsed(len) ==
    LET q1_idx == len \div 4
        q3_idx == (3 * len) \div 4
    IN  {len \div 2, q1_idx, q3_idx}
            \cup (IF len % 2 = 0 THEN {len \div 2 - 1} ELSE {})
            \cup (IF len % 4 = 0 THEN {q1_idx - 1} ELSE {})
            \cup (IF (3 * len) % 4 = 0 THEN {q3_idx - 1} ELSE {})

\* fn calculate_statistics(lengths: &[usize]) -> Statistics.  at(i) is the
\* 0-based sorted[i]; mean is <<sum, len>>; variance is the exact quotient
\* <<SumSquares, len^3>> whose square root is std_dev.
calculate_statistics(lengths) ==
    IF lengths = <<>> THEN ZeroStatistics
    ELSE LET sorted == SortedCopy(lengths)
             len == Len(sorted)
             at(i) == sorted[i + 1]
             sum == SumSeq(sorted)
             q1_idx == len \div 4
             q3_idx == (3 * len) \div 4
         IN  [min |-> at(0),
              max |-> at(len - 1),
              mean |-> <<sum, len>>,
              median |-> IF len % 2 = 0
                         THEN (at(len \div 2 - 1) + at(len \div 2)) \div 2
                         ELSE at(len \div 2),
              q1 |-> IF len % 4 = 0
                     THEN (at(q1_idx - 1) + at(q1_idx)) \div 2
                     ELSE at(q1_idx),
              q3 |-> IF (3 * len) % 4 = 0
                     THEN (at(q3_idx - 1) + at(q3_idx)) \div 2
                     ELSE at(q3_idx),
              variance |-> <<SumSquares(sorted, sum, len), len * len * len>>]

\* AboveUpperThreshold with the lower bound applied too (the filter the
\* source keeps commented out).
AboveUpperThreshold_or_below_lower(length, st) ==
    \/ 2 * length > 2 * st.q3 + 3 * (st.q3 - st.q1)
    \/ 2 * length < 2 * st.q1 - 3 * (st.q3 - st.q1)

\* (length as f64) > q3 + 1.5 * (q3 - q1), both sides doubled; every value
\* involved is an integer or a half, which f64 holds exactly.
AboveUpperThreshold(length, st) == 2 * length > 2 * st.q3 + 3 * (st.q3 - st.q1)

\* outlier_lengths: lengths_by_size (the lengths of length_counts, sorted
\* descending) filtered by the upper threshold.
OutlierLengths(length_counts, st) ==
    LET lengths_by_size == KeysDescending({length_counts[k][1] : k \in 1..Len(length_counts)})
    IN  SelectSeq(lengths_by_size, LAMBDA length : AboveUpperThreshold(length, st))

\* CountOf counting a length once however many rows have it.
CountOf_one(length_counts, length) ==
    IF \E k \in 1..Len(length_counts) : length_counts[k][1] = length THEN 1 ELSE 0

\* The count of `length` in length_counts: iter().find(|(l, _)| l == length).
CountOf(length_counts, length) ==
    LET hits == {k \in 1..Len(length_counts) : length_counts[k][1] = length}
    IN  IF hits = {} THEN 0
        ELSE length_counts[CHOOSE k \in hits : \A j \in hits : k <= j][2]

\* total_outliers: the counts of the outlier lengths, summed.
TotalOutliers(length_counts, outliers) ==
    SumSeq([k \in 1..Len(outliers) |-> CountOf(length_counts, outliers[k])])

\* ------------------------------ page section of the outlier reports

RECURSIVE IterationOrders(_)
\* The orders in which a HashMap may yield its keys: std's HashMap gives no
\* order, and each map is built with its own RandomState.
IterationOrders(keys) ==
    IF keys = {} THEN {<<>>}
    ELSE UNION {{<<k>> \o rest : rest \in IterationOrders(keys \ {k})} : k \in keys}

RECURSIVE PageIndicesMap_one_per_length(_, _, _)
\* PageIndicesMap pushing one index per length group instead of all of them.
PageIndicesMap_one_per_length(indices_map, order, page_map) ==
    IF order = <<>> THEN page_map
    ELSE LET length == Head(order)
             pages == PageBucket(length)
             old == IF pages \in DOMAIN page_map THEN page_map[pages] ELSE <<>>
         IN  PageIndicesMap_one_per_length(indices_map, Tail(order),
                 MapPut(page_map, pages, Append(old, Head(indices_map[length]))))

RECURSIVE PageIndicesMap(_, _, _)
\* for (length, indices) in indices_map { pages = ...; for &i in indices
\* { page_map.entry(pages).or_insert_with(Vec::new).push(i) } }, the map
\* yielding its keys in `order`.
PageIndicesMap(indices_map, order, page_map) ==
    IF order = <<>> THEN page_map
    ELSE LET length == Head(order)
             pages == PageBucket(length)
             old == IF pages \in DOMAIN page_map THEN page_map[pages] ELSE <<>>
         IN  PageIndicesMap(indices_map, Tail(order),
                            MapPut(page_map, pages, old \o indices_map[length]))

\* page_counts.insert(page_len, indices.len()) for every entry of the page map.
PageCounts(page_indices_map) ==
    [page_len \in DOMAIN page_indices_map |-> Len(page_indices_map[page_len])]

RECURSIVE StreamPageIndices(_, _, _)
\* The streaming outlier reports: for (row_index, &char_count) in
\* row_lengths.iter().enumerate() { page_length_counts.entry(pages)
\* .or_insert_with(Vec::new).push(row_index) }.  row_index is the 0-based
\* position in row_lengths.
StreamPageIndices(row_lengths, row_index, page_map) ==
    IF row_index >= Len(row_lengths) THEN page_map
    ELSE LET pages == PageBucket(row_lengths[row_index + 1])
             old == IF pages \in DOMAIN page_map THEN page_map[pages] ELSE <<>>
         IN  StreamPageIndices(row_lengths, row_index + 1,
                               MapPut(page_map, pages, Append(old, row_index)))

\* ---------------------------------------------- streaming: pure operators

\* One iteration of the streaming read loop.  row_index is the 0-based
\* position of the line among all the lines the reader delivers.
StreamLine(acc, row_index, line_result) ==
    IF line_result.ok
    THEN LET char_count == CharsCount(line_result)
             n == IF char_count \in DOMAIN acc.row_length_counts
                  THEN acc.row_length_counts[char_count] ELSE 0
             old == IF char_count \in DOMAIN acc.row_indices_map
                    THEN acc.row_indices_map[char_count] ELSE <<>>
         IN  [row_report |-> Append(acc.row_report,
                                    [row_index |-> row_index, ok |-> TRUE,
                                     char_count |-> char_count]),
              row_length_counts |-> MapPut(acc.row_length_counts, char_count, n + 1),
              all_row_lengths |-> Append(acc.all_row_lengths, char_count),
              row_indices_map |-> MapPut(acc.row_indices_map, char_count,
                                         Append(old, row_index)),
              total_rows |-> acc.total_rows + 1,
              total_chars |-> acc.total_chars + char_count,
              error_count |-> acc.error_count]
    ELSE [acc EXCEPT !.row_report = Append(@, [row_index |-> row_index, ok |-> FALSE,
                                               char_count |-> 0]),
                     !.error_count = @ + 1]

\* The accumulators of the streaming pass before the first line.
StreamStart ==
    [row_report |-> <<>>, row_length_counts |-> EmptyMap, all_row_lengths |-> <<>>,
     row_indices_map |-> EmptyMap, total_rows |-> 0, total_chars |-> 0,
     error_count |-> 0]

\* a as f64 / b as f64: IEEE division never traps; 0/0 is NaN and x/0 is
\* infinite.  A finite quotient is kept exact as num/den.
FloatDiv(a, b) ==
    IF b # 0 THEN [kind |-> "finite", num |-> a, den |-> b]
    ELSE IF a = 0 THEN [kind |-> "NaN", num |-> 0, den |-> 0]
    ELSE [kind |-> "inf", num |-> a, den |-> 0]

\* The percentage column of the pages report, row by row:
\* (*count as f64 / total_rows) * 100.0, kept exact as count * 100 over
\* total_rows.
PagePercentages(page_counts_vec, total_rows) ==
    [k \in 1..Len(page_counts_vec) |-> FloatDiv(page_counts_vec[k][2] * 100, total_rows)]

\* What the report stage of one analysis derives from the row lengths, the
\* length counts and the run's counters: the frequency vector, the pages
\* report, and in the outlier reports the average, the statistics and the
\* outliers.
ReportTables(lengths, counts, rows, chars) ==
    LET length_counts == LengthCountsVec(counts)
        st == calculate_statistics(lengths)
        outliers == OutlierLengths(length_counts, st)
    IN  [length_counts_vec |-> length_counts,
         page_counts_vec |-> PageCountsVec(CountPages(lengths, EmptyMap)),
         page_percentages |-> PagePercentages(PageCountsVec(CountPages(lengths, EmptyMap)),
                                              Len(lengths)),
         average_chars_per_row |-> FloatDiv(chars, rows),
         stats |-> st,
         outlier_lengths |-> outliers,
         total_outliers |-> TotalOutliers(length_counts, outliers)]

\* The report tables before the report stage has run.
NoTables ==
    [length_counts_vec |-> <<>>, page_counts_vec |-> <<>>, page_percentages |-> <<>>,
     average_chars_per_row |-> FloatDiv(0, 1), stats |-> ZeroStatistics,
     outlier_lengths |-> <<>>, total_outliers |-> 0]

\* ------------------------------------------------ report files on the disk

\* The report files of one analysis, by the middle part of their names.  The
\* streaming program writes no length_sorted report.
ReportFiles ==
    {"char_counts", "value_counts", "length_sorted", "pages_valuecounts",
     "md_outliers", "txt_outliers"}

\* No report file exists.
NoFiles == [f \in ReportFiles |-> "absent"]

Create(f) == [op |-> "create", file |-> f]

Write(f) == [op |-> "write", file |-> f]

OpenInput == [op |-> "open", file |-> "input"]

\* File::create leaves an empty file; writeln! on a File goes to the file
\* at once (there is no BufWriter), so the file has content afterwards.
ApplyStep(fs, step) ==
    IF step.op = "create" THEN [fs EXCEPT ![step.file] = "empty"]
    ELSE IF step.op = "write" THEN [fs EXCEPT ![step.file] = "content"]
    ELSE fs

RECURSIVE RunSteps(_, _)
RunSteps(fs, steps) ==
    IF steps = <<>> THEN fs
    ELSE RunSteps(ApplyStep(fs, Head(steps)), Tail(steps))

\* The files after the steps that precede the failing one: `?` returns at
\* the first failed step and nothing removes what the earlier steps left.
RunUntilFailure(fs, steps, fail_at) == RunSteps(fs, SubSeq(steps, 1, fail_at - 1))

\* The file operations of the report stage of the parallel analysis, in
\* program order.  A loop over no row writes nothing.
ParallelReportSteps(rows) ==
    LET perRow(f) == IF rows > 0 THEN <<Write(f)>> ELSE <<>>
    IN  <<Create("char_counts"), Create("value_counts"),
          Write("char_counts"), Write("value_counts")>>
        \o perRow("char_counts")
        \o <<Create("length_sorted"), Write("length_sorted")>>
        \o perRow("length_sorted")
        \o perRow("value_counts")
        \o <<Create("pages_valuecounts"), Write("pages_valuecounts")>>
        \o perRow("pages_valuecounts")
        \o <<Create("md_outliers"), Write("md_outliers"),
             Create("txt_outliers"), Write("txt_outliers")>>

\* The file operations of the streaming analysis before its read loop.
StreamOpenSteps ==
    <<OpenInput, Create("char_counts"), Create("value_counts"),
      Write("char_counts"), Write("value_counts")>>

\* The file operations of the streaming analysis after its read loop.
StreamReportSteps(rows) ==
    LET perRow(f) == IF rows > 0 THEN <<Write(f)>> ELSE <<>>
    IN  perRow("value_counts")
        \o <<Create("pages_valuecounts"), Write("pages_valuecounts")>>
        \o perRow("pages_valuecounts")
        \o <<Create("md_outliers"), Write("md_outliers"),
             Create("txt_outliers"), Write("txt_outliers")>>

\* ------------------------------------------------------- directory entries

\* What process_directory meets at an entry of the directory: an entry it
\* cannot read, an entry that is no CSV file, or a CSV file whose analysis
\* returns Ok, returns Err, or panics on a faulted worker thread.
DirEntryKinds == {"entry_err", "not_csv", "csv_ok", "csv_err", "csv_panic"}

IsCsv(kind) == kind \in {"csv_ok", "csv_err", "csv_panic"}

\* -------------------------------------------------------------------- state

VARIABLES
    input,            \* the source file: one line result per physical line
    workers,          \* the worker count of this run (WORKER_THREADS)
    pc,               \* position of the parallel analysis
    idx,              \* lines the reader has delivered so far
    all_lines,        \* (file_row, line) of the lines read
    error_count,      \* failed reads
    chunks,           \* the chunks still to be handed to a thread
    handles,          \* one record per spawned thread, in spawn order
    finish_order,     \* history: chunk indices in the order the threads ended
    joined,           \* handles joined so far
    all_row_entries,  \* RowEntry list collected from the threads
    total_chars,      \* sum of the threads' partial sums
    row_entries,      \* (file_row, data_index, char_count), final order
    all_row_lengths,  \* char_count column handed to the statistics
    row_length_counts,\* HashMap length -> count
    file_indices_map, \* HashMap length -> file rows
    data_indices_map, \* HashMap length -> data indices
    tables,           \* frequency vector, pages report, statistics, outliers
    page_counts,      \* HashMap page length -> count of the outlier reports
    result,           \* "none" while running, then what the analysis returned
    s_pc,             \* position of the streaming analysis
    s_acc,            \* accumulators of the streaming read loop
    s_tables,         \* report tables of the streaming analysis
    s_result,         \* "none" while running, then what the analysis returned
    files,            \* report files of the parallel analysis on the disk
    s_files,          \* report files of the streaming analysis on the disk
    dir_entries,      \* the entries read_dir yields, in the order it yields them
    dir_pos,          \* entries process_directory has taken so far
    dir_attempted,    \* positions of the CSV files whose analysis was called
    processed_count,  \* analyses that returned Ok
    dir_result        \* "none" while running, then how process_directory ended

ingestVars == <<input, workers, idx, all_lines, error_count>>

threadVars == <<chunks, handles, finish_order>>

aggVars == <<joined, all_row_entries, total_chars, row_entries>>

reportVars == <<all_row_lengths, row_length_counts, file_indices_map,
                data_indices_map, tables, page_counts, result, files>>

streamVars == <<s_pc, s_acc, s_tables, s_result, s_files>>

dirVars == <<dir_entries, dir_pos, dir_attempted, processed_count, dir_result>>

vars == <<input, workers, pc, idx, all_lines, error_count, chunks, handles,
          finish_order, joined, all_row_entries, total_chars, row_entries,
          all_row_lengths, row_length_counts, file_indices_map, data_indices_map,
          tables, page_counts, result, s_pc, s_acc, s_tables, s_result, files, s_files,
          dir_entries, dir_pos, dir_attempted, processed_count, dir_result>>

LineResults == {OkLine(c) : c \in LineLens} \cup {ErrLine}

\* Nothing has been reported yet.
ReportsUntouched ==
    /\ all_row_lengths = <<>>
    /\ row_length_counts = EmptyMap
    /\ file_indices_map = EmptyMap
    /\ data_indices_map = EmptyMap
    /\ tables = NoTables
    /\ page_counts = EmptyMap
    /\ result = "none"
    /\ files = NoFiles

\* The streaming analysis has not started.
StreamUntouched ==
    /\ s_pc = "open"
    /\ s_acc = StreamStart
    /\ s_tables = NoTables
    /\ s_result = "none"
    /\ s_files = NoFiles

\* process_directory is not running: the program was given a single file.
DirectoryIdle ==
    /\ dir_entries = <<>>
    /\ dir_pos = 0
    /\ dir_attempted = <<>>
    /\ processed_count = 0
    /\ dir_result = "none"

Init ==
    /\ input \in SeqsUpTo(LineResults, MaxLines)
    /\ workers \in WorkerCounts
    /\ pc = "read"
    /\ idx = 0
    /\ all_lines = <<>>
    /\ error_count = 0
    /\ chunks = <<>>
    /\ handles = <<>>
    /\ finish_order = <<>>
    /\ joined = 0
    /\ all_row_entries = <<>>
    /\ total_chars = 0
    /\ row_entries = <<>>
    /\ ReportsUntouched
    /\ StreamUntouched
    /\ DirectoryIdle

\* --------------------------------------------------------- parallel: steps

\* for (idx, line_result) in reader.lines().enumerate()
ReadLine ==
    /\ pc = "read"
    /\ idx < Len(input)
    /\ LET acc == IngestLine([all_lines |-> all_lines, error_count |-> error_count],
                             idx + 1, input[idx + 1])
       IN  /\ all_lines' = acc.all_lines
           /\ error_count' = acc.error_count
    /\ idx' = idx + 1
    /\ UNCHANGED <<input, workers, pc>>
    /\ UNCHANGED threadVars
    /\ UNCHANGED aggVars
    /\ UNCHANGED reportVars
    /\ UNCHANGED streamVars
    /\ UNCHANGED dirVars

\* End of the read loop: the lines are divided into chunks.
MakeChunks ==
    /\ pc = "read"
    /\ idx = Len(input)
    /\ chunks' = SliceChunks(all_lines, LinesPerChunk(Len(all_lines), workers))
    /\ pc' = "spawn"
    /\ UNCHANGED ingestVars
    /\ UNCHANGED <<handles, finish_order>>
    /\ UNCHANGED aggVars
    /\ UNCHANGED reportVars
    /\ UNCHANGED streamVars
    /\ UNCHANGED dirVars

\* thread::spawn(move || ...) for the next chunk; the chunk moves into the thread.
Spawn ==
    /\ pc = "spawn"
    /\ chunks # <<>>
    /\ handles' = Append(handles, [st |-> "running", chunk |-> Head(chunks),
                                   entries |-> <<>>, chars |-> 0])
    /\ chunks' = Tail(chunks)
    /\ UNCHANGED <<pc, finish_order>>
    /\ UNCHANGED ingestVars
    /\ UNCHANGED aggVars
    /\ UNCHANGED reportVars
    /\ UNCHANGED streamVars
    /\ UNCHANGED dirVars

\* End of the spawn loop.
SpawnDone ==
    /\ pc = "spawn"
    /\ chunks = <<>>
    /\ pc' = "join"
    /\ UNCHANGED ingestVars
    /\ UNCHANGED threadVars
    /\ UNCHANGED aggVars
    /\ UNCHANGED reportVars
    /\ UNCHANGED streamVars
    /\ UNCHANGED dirVars

\* WorkerRun for a thread that is cancelled instead of running to its end.
WorkerRun_cancelled(w) ==
    /\ handles[w].st = "running"
    /\ handles' = [handles EXCEPT ![w] = [st |-> "cancelled", chunk |-> <<>>,
                                           entries |-> <<>>, chars |-> 0]]
    /\ UNCHANGED <<pc, chunks, finish_order>>
    /\ UNCHANGED ingestVars
    /\ UNCHANGED aggVars
    /\ UNCHANGED reportVars
    /\ UNCHANGED streamVars
    /\ UNCHANGED dirVars

\* Thread w runs its closure to the end.  The closure reads and writes only
\* values it owns, so its steps commute with every other thread's.
WorkerRun(w) ==
    /\ handles[w].st = "running"
    /\ LET r == WorkerLoop(handles[w].chunk, <<>>, 0)
       IN  handles' = [handles EXCEPT ![w] = [st |-> "finished", chunk |-> <<>>,
                                              entries |-> r.entries, chars |-> r.chars]]
    /\ finish_order' = Append(finish_order, w)
    /\ UNCHANGED <<pc, chunks>>
    /\ UNCHANGED ingestVars
    /\ UNCHANGED aggVars
    /\ UNCHANGED reportVars
    /\ UNCHANGED streamVars
    /\ UNCHANGED dirVars

\* for handle in handles { handle.join() ... }: the next handle in spawn order.
Join ==
    /\ pc = "join"
    /\ joined < Len(handles)
    /\ JoinReady(handles[joined + 1])
    /\ all_row_entries' = ExtendEntries(all_row_entries, handles[joined + 1].entries)
    /\ total_chars' = AddChars(total_chars, handles[joined + 1].chars)
    /\ joined' = joined + 1
    /\ UNCHANGED <<pc, row_entries>>
    /\ UNCHANGED ingestVars
    /\ UNCHANGED threadVars
    /\ UNCHANGED reportVars
    /\ UNCHANGED streamVars
    /\ UNCHANGED dirVars

\* JoinDone leaving the join loop before the last handle is joined.
JoinDone_partial ==
    /\ pc = "join"
    /\ joined >= 1
    /\ pc' = "sort"
    /\ UNCHANGED ingestVars
    /\ UNCHANGED threadVars
    /\ UNCHANGED aggVars
    /\ UNCHANGED reportVars
    /\ UNCHANGED streamVars
    /\ UNCHANGED dirVars

\* End of the join loop.
JoinDone ==
    /\ pc = "join"
    /\ joined = Len(handles)
    /\ pc' = "sort"
    /\ UNCHANGED ingestVars
    /\ UNCHANGED threadVars
    /\ UNCHANGED aggVars
    /\ UNCHANGED reportVars
    /\ UNCHANGED streamVars
    /\ UNCHANGED dirVars

\* all_row_entries.sort_by_key(|entry| entry.file_row)
Sort ==
    /\ pc = "sort"
    /\ all_row_entries' = SortByFileRow(all_row_entries)
    /\ pc' = "index"
    /\ UNCHANGED <<joined, total_chars, row_entries>>
    /\ UNCHANGED ingestVars
    /\ UNCHANGED threadVars
    /\ UNCHANGED reportVars
    /\ UNCHANGED streamVars
    /\ UNCHANGED dirVars

\* let row_entries = all_row_entries.iter().enumerate().map(...).collect()
Index ==
    /\ pc = "index"
    /\ row_entries' = AssignDataIndex(all_row_entries)
    /\ pc' = "reports"
    /\ UNCHANGED <<joined, all_row_entries, total_chars>>
    /\ UNCHANGED ingestVars
    /\ UNCHANGED threadVars
    /\ UNCHANGED reportVars
    /\ UNCHANGED streamVars
    /\ UNCHANGED dirVars



\* The sequential report stage of the parallel analysis: the tables built
\* from row_entries, the pages report, and the two outlier reports.  The
\* outlier reports build their page table from file_indices_map in whatever
\* order the HashMap iterates.
Reports ==
    /\ pc = "reports"
    /\ all_row_lengths' = RowLengths(row_entries)
    /\ row_length_counts' = CountLengths(RowLengths(row_entries), EmptyMap)
    /\ file_indices_map' = IndicesMap(row_entries, 1, EmptyMap)
    /\ data_indices_map' = IndicesMap(row_entries, 2, EmptyMap)
    /\ tables' = ReportTables(RowLengths(row_entries),
                              CountLengths(RowLengths(row_entries), EmptyMap),
                              Len(row_entries), total_chars)
    /\ \E file_order \in IterationOrders(DOMAIN IndicesMap(row_entries, 1, EmptyMap)) :
           page_counts' = PageCounts(PageIndicesMap(IndicesMap(row_entries, 1, EmptyMap),
                                                    file_order, EmptyMap))
    /\ files' = RunSteps(files, ParallelReportSteps(Len(row_entries)))
    /\ result' = "Ok"
    /\ pc' = "done"
    /\ UNCHANGED ingestVars
    /\ UNCHANGED threadVars
    /\ UNCHANGED aggVars
    /\ UNCHANGED streamVars
    /\ UNCHANGED dirVars

\* -------------------------------------------------------- streaming: steps

\* The streaming program is run on the same file once the parallel one has
\* ended.  It opens the source, creates the row report and the frequency
\* report and writes their header lines before it reads a line.
StreamOpen ==
    /\ pc = "done"
    /\ s_pc = "open"
    /\ s_files' = RunSteps(s_files, StreamOpenSteps)
    /\ s_pc' = "read"
    /\ UNCHANGED <<s_acc, s_tables, s_result>>
    /\ UNCHANGED pc
    /\ UNCHANGED ingestVars
    /\ UNCHANGED threadVars
    /\ UNCHANGED aggVars
    /\ UNCHANGED reportVars
    /\ UNCHANGED dirVars

\* for (row_index, line_result) in reader.lines().enumerate(): either arm
\* of the match writes one line to the row report.
StreamReadLine ==
    /\ pc = "done"
    /\ s_pc = "read"
    /\ Len(s_acc.row_report) < Len(input)
    /\ s_acc' = StreamLine(s_acc, Len(s_acc.row_report),
                           input[Len(s_acc.row_report) + 1])
    /\ s_files' = ApplyStep(s_files, Write("char_counts"))
    /\ UNCHANGED <<s_pc, s_tables, s_result>>
    /\ UNCHANGED pc
    /\ UNCHANGED ingestVars
    /\ UNCHANGED threadVars
    /\ UNCHANGED aggVars
    /\ UNCHANGED reportVars
    /\ UNCHANGED dirVars

\* After the loop: frequency report, pages report, the two outlier reports.
StreamReports ==
    /\ pc = "done"
    /\ s_pc = "read"
    /\ Len(s_acc.row_report) = Len(input)
    /\ s_tables' = ReportTables(s_acc.all_row_lengths, s_acc.row_length_counts,
                                s_acc.total_rows, s_acc.total_chars)
    /\ s_files' = RunSteps(s_files, StreamReportSteps(s_acc.total_rows))
    /\ s_result' = "Ok"
    /\ s_pc' = "done"
    /\ UNCHANGED s_acc
    /\ UNCHANGED pc
    /\ UNCHANGED ingestVars
    /\ UNCHANGED threadVars
    /\ UNCHANGED aggVars
    /\ UNCHANGED reportVars
    /\ UNCHANGED dirVars

\* ----------------------------------------------------------- specifications

Next ==
    \/ ReadLine
    \/ MakeChunks
    \/ Spawn
    \/ SpawnDone
    \/ \E w \in 1..Len(handles) : WorkerRun(w)
    \/ Join
    \/ JoinDone
    \/ Sort
    \/ Index
    \/ Reports
    \/ StreamOpen
    \/ StreamReadLine
    \/ StreamReports

Spec == Init /\ [][Next]_vars

\* The report stage taken alone.  It starts where the parallel analysis
\* stands after the join, the sort and the data_index assignment for a file
\* of readable lines with the given character counts, and runs the report
\* stage of both programs from there.
\* Longer files in which at most two rows are longer than the others: with
\* fewer than nine rows no two rows can lie above the upper threshold.
MaxOutlierRows == 9

OutlierLens == {10, 1000, 2000}

OutlierInputs ==
    LET short == CHOOSE m \in OutlierLens : \A x \in OutlierLens : m <= x
    IN  {s \in [1..MaxOutlierRows -> OutlierLens] :
            Cardinality({k \in 1..MaxOutlierRows : s[k] # short}) <= 2}

ReportInputs ==
    SeqsUpTo(StatLens, MaxStatLen) \cup {<<c>> : c \in 0..MaxCharCount}
        \cup OutlierInputs

InitReports ==
    \E lengths \in ReportInputs :
        LET lines == [k \in 1..Len(lengths) |-> <<k, OkLine(lengths[k])>>]
            cs == SliceChunks(lines, LinesPerChunk(Len(lines), WORKER_THREADS))
            entries == [k \in 1..Len(lengths) |->
                           [file_row |-> k, char_count |-> lengths[k]]]
        IN  /\ input = [k \in 1..Len(lengths) |-> OkLine(lengths[k])]
            /\ workers = WORKER_THREADS
            /\ pc = "reports"
            /\ idx = Len(lengths)
            /\ all_lines = lines
            /\ error_count = 0
            /\ chunks = <<>>
            /\ handles = [w \in 1..Len(cs) |->
                             LET r == WorkerLoop(cs[w], <<>>, 0)
                             IN  [st |-> "finished", chunk |-> <<>>,
                                  entries |-> r.entries, chars |-> r.chars]]
            /\ finish_order = [w \in 1..Len(cs) |-> w]
            /\ joined = Len(cs)
            /\ all_row_entries = entries
            /\ total_chars = SumSeq(lengths)
            /\ row_entries = AssignDataIndex(entries)
            /\ ReportsUntouched
            /\ StreamUntouched
            /\ DirectoryIdle

NextReports ==
    \/ Reports
    \/ StreamOpen
    \/ StreamReadLine
    \/ StreamReports

SpecReports == InitReports /\ [][NextReports]_vars

\* ------------------------------------------ worker faults and I/O failures

\* The tables of the report stage that live in memory only.
reportData == <<all_row_lengths, row_length_counts, file_indices_map,
                data_indices_map, tables, page_counts>>

\* File::open(input_file_path)? fails: the parallel analysis returns the
\* error before it has read a line.
OpenFails ==
    /\ pc = "read"
    /\ idx = 0
    /\ result' = "Err"
    /\ pc' = "failed"
    /\ UNCHANGED <<reportData, files>>
    /\ UNCHANGED ingestVars
    /\ UNCHANGED threadVars
    /\ UNCHANGED aggVars
    /\ UNCHANGED streamVars
    /\ UNCHANGED dirVars

\* Thread w panics inside its closure: it returns nothing, and its handle
\* will give Err to join().
WorkerPanic(w) ==
    /\ handles[w].st = "running"
    /\ handles' = [handles EXCEPT ![w] = [st |-> "panicked", chunk |-> <<>>,
                                           entries |-> <<>>, chars |-> 0]]
    /\ finish_order' = Append(finish_order, w)
    /\ UNCHANGED <<pc, chunks>>
    /\ UNCHANGED ingestVars
    /\ UNCHANGED aggVars
    /\ UNCHANGED reportVars
    /\ UNCHANGED streamVars
    /\ UNCHANGED dirVars

\* JoinPanicked that skips the chunk of the panicked thread and goes on.
JoinPanicked_skip ==
    /\ pc = "join"
    /\ joined < Len(handles)
    /\ handles[joined + 1].st = "panicked"
    /\ joined' = joined + 1
    /\ UNCHANGED <<pc, all_row_entries, total_chars, row_entries>>
    /\ UNCHANGED ingestVars
    /\ UNCHANGED threadVars
    /\ UNCHANGED reportVars
    /\ UNCHANGED streamVars
    /\ UNCHANGED dirVars

\* handle.join().expect("Thread panicked") on the handle of a panicked
\* thread: the calling thread panics, the analysis returns nothing.
JoinPanicked ==
    /\ pc = "join"
    /\ joined < Len(handles)
    /\ handles[joined + 1].st = "panicked"
    /\ result' = "panic"
    /\ pc' = "panicked"
    /\ UNCHANGED <<reportData, files>>
    /\ UNCHANGED ingestVars
    /\ UNCHANGED threadVars
    /\ UNCHANGED aggVars
    /\ UNCHANGED streamVars
    /\ UNCHANGED dirVars

\* The report stage of the parallel analysis with its fail_at-th file
\* operation failing: `?` returns the error, the tables in memory are
\* dropped, the files stay as the earlier operations left them.
ReportsFail ==
    /\ pc = "reports"
    /\ \E fail_at \in 1..Len(ParallelReportSteps(Len(row_entries))) :
           files' = RunUntilFailure(files, ParallelReportSteps(Len(row_entries)), fail_at)
    /\ result' = "Err"
    /\ pc' = "failed"
    /\ UNCHANGED reportData
    /\ UNCHANGED ingestVars
    /\ UNCHANGED threadVars
    /\ UNCHANGED aggVars
    /\ UNCHANGED streamVars
    /\ UNCHANGED dirVars

\* The streaming analysis failing to open the source, to create one of its
\* first two reports or to write a header line.
StreamOpenFail ==
    /\ pc = "done"
    /\ s_pc = "open"
    /\ \E fail_at \in 1..Len(StreamOpenSteps) :
           s_files' = RunUntilFailure(s_files, StreamOpenSteps, fail_at)
    /\ s_result' = "Err"
    /\ s_pc' = "failed"
    /\ UNCHANGED <<s_acc, s_tables>>
    /\ UNCHANGED pc
    /\ UNCHANGED ingestVars
    /\ UNCHANGED threadVars
    /\ UNCHANGED aggVars
    /\ UNCHANGED reportVars
    /\ UNCHANGED dirVars

\* The streaming read loop with the writeln! of the next row failing.
StreamReadLineFail ==
    /\ pc = "done"
    /\ s_pc = "read"
    /\ Len(s_acc.row_report) < Len(input)
    /\ s_result' = "Err"
    /\ s_pc' = "failed"
    /\ UNCHANGED <<s_acc, s_tables, s_files>>
    /\ UNCHANGED pc
    /\ UNCHANGED ingestVars
    /\ UNCHANGED threadVars
    /\ UNCHANGED aggVars
    /\ UNCHANGED reportVars
    /\ UNCHANGED dirVars

\* The report stage of the streaming analysis with its fail_at-th file
\* operation failing.
StreamReportsFail ==
    /\ pc = "done"
    /\ s_pc = "read"
    /\ Len(s_acc.row_report) = Len(input)
    /\ \E fail_at \in 1..Len(StreamReportSteps(s_acc.total_rows)) :
           s_files' = RunUntilFailure(s_files, StreamReportSteps(s_acc.total_rows), fail_at)
    /\ s_result' = "Err"
    /\ s_pc' = "failed"
    /\ UNCHANGED <<s_acc, s_tables>>
    /\ UNCHANGED pc
    /\ UNCHANGED ingestVars
    /\ UNCHANGED threadVars
    /\ UNCHANGED aggVars
    /\ UNCHANGED reportVars
    /\ UNCHANGED dirVars

\* Character counts of the lines of the runs with faults: what a line
\* holds has no part in how a fault is handled.
FaultLineLens == {20}

\* The two analyses with worker faults and I/O failures: Spec, whose runs
\* meet neither, and the steps above.
InitFaults ==
    /\ input \in SeqsUpTo({OkLine(c) : c \in FaultLineLens} \cup {ErrLine}, MaxLines)
    /\ workers \in WorkerCounts
    /\ pc = "read"
    /\ idx = 0
    /\ all_lines = <<>>
    /\ error_count = 0
    /\ chunks = <<>>
    /\ handles = <<>>
    /\ finish_order = <<>>
    /\ joined = 0
    /\ all_row_entries = <<>>
    /\ total_chars = 0
    /\ row_entries = <<>>
    /\ ReportsUntouched
    /\ StreamUntouched
    /\ DirectoryIdle

NextFaults ==
    \/ ReadLine
    \/ OpenFails
    \/ MakeChunks
    \/ Spawn
    \/ SpawnDone
    \/ \E w \in 1..Len(handles) : WorkerRun(w)
    \/ \E w \in 1..Len(handles) : WorkerPanic(w)
    \/ Join
    \/ JoinPanicked
    \/ JoinDone
    \/ Sort
    \/ Index
    \/ Reports
    \/ ReportsFail
    \/ StreamOpen
    \/ StreamOpenFail
    \/ StreamReadLine
    \/ StreamReadLineFail
    \/ StreamReports
    \/ StreamReportsFail

SpecFaults == InitFaults /\ [][NextFaults]_vars

\* --------------------------------------------------------- the partitioner

\* Most rows the partitioner taken alone is given.
MaxChunkRows == 17

\* The partitioner taken alone: a file of readable lines is read, divided
\* into chunks, and each chunk is moved into its thread.
InitChunks ==
    /\ input \in {[k \in 1..n |-> OkLine(20)] : n \in 0..MaxChunkRows}
    /\ workers \in WorkerCounts
    /\ pc = "read"
    /\ idx = 0
    /\ all_lines = <<>>
    /\ error_count = 0
    /\ chunks = <<>>
    /\ handles = <<>>
    /\ finish_order = <<>>
    /\ joined = 0
    /\ all_row_entries = <<>>
    /\ total_chars = 0
    /\ row_entries = <<>>
    /\ ReportsUntouched
    /\ StreamUntouched
    /\ DirectoryIdle

NextChunks ==
    \/ ReadLine
    \/ MakeChunks
    \/ Spawn
    \/ SpawnDone

SpecChunks == InitChunks /\ [][NextChunks]_vars

\* ---------------------------------------------------------- directory mode

\* Most entries of a directory.
MaxDirEntries == 3

\* Every variable of the two analyses.
analysisVars == <<pc, ingestVars, threadVars, aggVars, reportVars, streamVars>>

\* fs::read_dir(directory_path)? fails: process_directory returns the error.
ReadDirFails ==
    /\ dir_result = "none"
    /\ dir_pos = 0
    /\ dir_result' = "Err"
    /\ UNCHANGED <<dir_entries, dir_pos, dir_attempted, processed_count>>
    /\ UNCHANGED analysisVars

\* One turn of the loop over the entries.  `entry?` returns the error of an
\* unreadable entry; an entry that is no CSV file is passed over; a CSV
\* file is analysed: Ok counts, Err is reported and the loop goes on, and a
\* panic of the analysis unwinds through process_directory, which catches
\* nothing.
ProcessEntry ==
    /\ dir_result = "none"
    /\ dir_pos < Len(dir_entries)
    /\ LET kind == dir_entries[dir_pos + 1]
       IN  /\ dir_attempted' = IF IsCsv(kind) THEN Append(dir_attempted, dir_pos + 1)
                               ELSE dir_attempted
           /\ processed_count' = IF kind = "csv_ok" THEN processed_count + 1
                                 ELSE processed_count
           /\ dir_result' = IF kind = "entry_err" THEN "Err"
                            ELSE IF kind = "csv_panic" THEN "panic"
                            ELSE "none"
    /\ dir_pos' = dir_pos + 1
    /\ UNCHANGED dir_entries
    /\ UNCHANGED analysisVars

\* The entries are used up: Ok(processed_count).
DirectoryDone ==
    /\ dir_result = "none"
    /\ dir_pos = Len(dir_entries)
    /\ dir_result' = "Ok"
    /\ UNCHANGED <<dir_entries, dir_pos, dir_attempted, processed_count>>
    /\ UNCHANGED analysisVars

InitDirectory ==
    /\ dir_entries \in SeqsUpTo(DirEntryKinds, MaxDirEntries)
    /\ dir_pos = 0
    /\ dir_attempted = <<>>
    /\ processed_count = 0
    /\ dir_result = "none"
    /\ input = <<>>
    /\ workers = WORKER_THREADS
    /\ pc = "read"
    /\ idx = 0
    /\ all_lines = <<>>
    /\ error_count = 0
    /\ chunks = <<>>
    /\ handles = <<>>
    /\ finish_order = <<>>
    /\ joined = 0
    /\ all_row_entries = <<>>
    /\ total_chars = 0
    /\ row_entries = <<>>
    /\ ReportsUntouched
    /\ StreamUntouched

NextDirectory ==
    \/ ReadDirFails
    \/ ProcessEntry
    \/ DirectoryDone

SpecDirectory == InitDirectory /\ [][NextDirectory]_vars

\* ------------------------------------------------------ reference values

\* The 1-based numbers of the lines of `inp` that were read.
OkRows(inp) == {i \in 1..Len(inp) : inp[i].ok}

\* The number of lines among the first n of `inp` whose read failed.
FailedAmong(inp, n) == Cardinality({i \in 1..n : ~inp[i].ok})

\* The rows of the file in file order: the k-th readable line of `inp` with
\* its line number and character count.
ExpectedEntries(inp) ==
    LET rows == KeysAscending(OkRows(inp))
    IN  [k \in 1..Len(rows) |-> [file_row |-> rows[k], char_count |-> inp[rows[k]].chars]]

ExpectedLengths(inp) ==
    LET e == ExpectedEntries(inp)
    IN  [k \in 1..Len(e) |-> e[k].char_count]

\* The parallel analysis is past the sort.
Sorted == pc \in {"index", "reports", "done"}

\* ------------------------------------------------------------------ claims

\* C1 (order invariant): after the join and the sort, whatever the worker
\* count and whichever lines failed to read, the Corpus is strictly
\* ascending by file_row and holds exactly one (file_row, char_count) pair
\* per readable line of the input, so it is the same sequence for every
\* worker count.
C1_OrderInvariant ==
    Sorted =>
        /\ \A k \in 1..(Len(all_row_entries) - 1) :
               all_row_entries[k].file_row < all_row_entries[k + 1].file_row
        /\ Len(all_row_entries) = Cardinality(OkRows(input))
        /\ {<<all_row_entries[k].file_row, all_row_entries[k].char_count>> :
                k \in 1..Len(all_row_entries)}
           = {<<i, input[i].chars>> : i \in OkRows(input)}

\* C1 witness: a sorted Corpus of three rows from two chunks of a file with
\* a line that failed to read.
C1_Witness ==
    /\ pc = "index"
    /\ workers = 2
    /\ Len(handles) = 2
    /\ error_count = 1
    /\ Len(all_row_entries) = 3

\* C2 (completion-order independence): whatever the order in which the
\* worker threads ended, the finished analysis holds the Corpus, the
\* character total and the derived tables that the input alone determines.
C2_CompletionOrderIndependent ==
    pc = "done" =>
        /\ all_row_entries = ExpectedEntries(input)
        /\ [k \in 1..Len(row_entries) |-> row_entries[k][3]] = ExpectedLengths(input)
        /\ total_chars = SumSeq(ExpectedLengths(input))
        /\ all_row_lengths = ExpectedLengths(input)
        /\ tables = ReportTables(ExpectedLengths(input),
                                 CountLengths(ExpectedLengths(input), EmptyMap),
                                 Len(ExpectedLengths(input)),
                                 SumSeq(ExpectedLengths(input)))

\* C2 witness: a finished analysis in which a later chunk's thread ended
\* before the first chunk's.
C2_Witness ==
    /\ pc = "done"
    /\ Len(finish_order) >= 3
    /\ finish_order[1] = Len(finish_order)
    /\ finish_order[Len(finish_order)] = 1
    /\ total_chars > 0

\* C3 (sum invariant): for every partition into chunks the character total
\* is the sum of the partial sums of the threads joined so far; after the
\* join it is the sum of char_count over the sorted Corpus, which is the
\* sum calculate_statistics divides for the mean.
C3_SumInvariant ==
    /\ total_chars = SumSeq([w \in 1..joined |-> handles[w].chars])
    /\ Sorted =>
           total_chars = SumSeq([k \in 1..Len(all_row_entries) |->
                                    all_row_entries[k].char_count])
    /\ (pc = "done" /\ row_entries # <<>>) =>
           tables.stats.mean = <<total_chars, Len(row_entries)>>

\* C3 witness: a finished analysis whose total comes from two threads that
\* each counted characters.
C3_Witness ==
    /\ pc = "done"
    /\ Len(handles) >= 2
    /\ handles[1].chars > 0
    /\ handles[2].chars > 0
    /\ total_chars = handles[1].chars + handles[2].chars

\* C4 (header rule) as claimed: in the final Corpus data_index is -1 exactly
\* for file_row 1, every other row has a data_index >= 0, the first
\* non-header row has data_index 0 and data_index grows by 1 from row to
\* row, also when line 1 or other lines failed to read.
C4_HeaderRule ==
    pc \in {"reports", "done"} =>
        /\ \A k \in 1..Len(row_entries) :
               /\ (row_entries[k][2] = -1) <=> (row_entries[k][1] = 1)
               /\ row_entries[k][1] # 1 => row_entries[k][2] >= 0
        /\ \A k \in 1..Len(row_entries) :
               (/\ row_entries[k][1] # 1
                /\ \A j \in 1..(k - 1) : row_entries[j][1] = 1)
               => row_entries[k][2] = 0
        /\ \A k \in 1..(Len(row_entries) - 1) :
               row_entries[k + 1][2] = row_entries[k][2] + 1

\* C5 (read failures are counted, not fatal): both read loops visit every
\* line; after n lines of which k failed, error_count is k and exactly the
\* n - k readable lines are kept, a line after a failed one included.
C5_ReadFailureCounted ==
    /\ error_count = FailedAmong(input, idx)
    /\ Len(all_lines) = idx - FailedAmong(input, idx)
    /\ \A j \in 1..idx : input[j].ok => \E k \in 1..Len(all_lines) : all_lines[k][1] = j
    /\ pc # "read" => idx = Len(input)
    /\ pc \in {"reports", "done"} =>
           Len(row_entries) = Len(input) - FailedAmong(input, Len(input))
    /\ LET n == Len(s_acc.row_report)
       IN  /\ s_acc.error_count = FailedAmong(input, n)
           /\ s_acc.total_rows = n - FailedAmong(input, n)
           /\ Len(s_acc.all_row_lengths) = s_acc.total_rows
           /\ s_pc = "done" => n = Len(input)

\* C5 witness: both analyses finished a file whose first line failed to
\* read and whose later lines were kept.
C5_Witness ==
    /\ pc = "done"
    /\ s_pc = "done"
    /\ Len(input) >= 3
    /\ ~input[1].ok
    /\ error_count = 1
    /\ s_acc.error_count = 1
    /\ Len(row_entries) = Len(input) - 1
    /\ s_acc.total_rows = Len(input) - 1

\* The value at 0-based position i of the ascending arrangement of
\* `lengths`: the v with at most i elements below it and more than i
\* elements not above it.
OrderStat(lengths, i) ==
    CHOOSE v \in {lengths[j] : j \in 1..Len(lengths)} :
        /\ Cardinality({j \in 1..Len(lengths) : lengths[j] < v}) <= i
        /\ Cardinality({j \in 1..Len(lengths) : lengths[j] <= v}) > i

\* The quantile rule of the specification, read off the order statistics.
QuantileRule(st, lengths) ==
    LET n == Len(lengths)
        s(i) == OrderStat(lengths, i)
    IN  /\ st.min = s(0)
        /\ st.max = s(n - 1)
        /\ st.median = IF n % 2 = 0
                       THEN (s(n \div 2 - 1) + s(n \div 2)) \div 2
                       ELSE s(n \div 2)
        /\ st.q1 = IF n % 4 = 0
                   THEN (s(n \div 4 - 1) + s(n \div 4)) \div 2
                   ELSE s(n \div 4)
        /\ st.q3 = IF (3 * n) % 4 = 0
                   THEN (s((3 * n) \div 4 - 1) + s((3 * n) \div 4)) \div 2
                   ELSE s((3 * n) \div 4)

Reversed(s) == [k \in 1..Len(s) |-> s[Len(s) + 1 - k]]

\* C6 (quantile rule): for every non-empty list of lengths the statistics
\* of both programs follow the rule on the ascending arrangement (min,
\* max, median, q1 with the n mod 4 = 0 average, q3 with the 3n mod 4 = 0
\* average); [10,20,20,30,1000] gives median 20, q1 20, q3 30; the list in
\* reverse order gives the same statistics.
C6_QuantileRule ==
    /\ (pc = "done" /\ all_row_lengths # <<>>) =>
           /\ QuantileRule(tables.stats, all_row_lengths)
           /\ tables.stats = calculate_statistics(Reversed(all_row_lengths))
           /\ all_row_lengths = <<10, 20, 20, 30, 1000>> =>
                  /\ tables.stats.median = 20
                  /\ tables.stats.q1 = 20
                  /\ tables.stats.q3 = 30
    /\ (s_pc = "done" /\ s_acc.all_row_lengths # <<>>) =>
           QuantileRule(s_tables.stats, s_acc.all_row_lengths)

\* C6 witness: the statistics of an unsorted list of four lengths, where
\* both averaging rules apply, with the example's quartiles.
C6_Witness ==
    /\ pc = "done"
    /\ s_pc = "done"
    /\ all_row_lengths = <<1000, 30, 20, 10>>
    /\ tables.stats.q1 = 15
    /\ tables.stats.median = 25
    /\ tables.stats.q3 = 515
    /\ s_tables.stats = tables.stats

\* C7 (empty input is not an error): with no line read, both analyses
\* return Ok, the statistics are all zero, the length and page tables are
\* empty and the outlier reports flag nothing; the average over zero rows
\* is a float division (NaN), not a trap.
C7_EmptyInput ==
    /\ (pc = "done" /\ row_entries = <<>>) =>
           /\ result = "Ok"
           /\ tables.stats = [min |-> 0, max |-> 0, mean |-> <<0, 1>>, median |-> 0,
                              q1 |-> 0, q3 |-> 0, variance |-> <<0, 1>>]
           /\ tables.length_counts_vec = <<>>
           /\ tables.page_counts_vec = <<>>
           /\ tables.outlier_lengths = <<>>
           /\ tables.average_chars_per_row.kind = "NaN"
           /\ DOMAIN row_length_counts = {}
           /\ DOMAIN file_indices_map = {}
    /\ (s_pc = "done" /\ s_acc.total_rows = 0) =>
           /\ s_result = "Ok"
           /\ s_tables.stats = [min |-> 0, max |-> 0, mean |-> <<0, 1>>, median |-> 0,
                                q1 |-> 0, q3 |-> 0, variance |-> <<0, 1>>]
           /\ s_tables.length_counts_vec = <<>>
           /\ s_tables.page_counts_vec = <<>>
           /\ s_tables.outlier_lengths = <<>>
           /\ s_tables.average_chars_per_row.kind = "NaN"

\* C7 witness: both analyses finished a file none of whose lines could be
\* read.
C7_Witness ==
    /\ pc = "done"
    /\ s_pc = "done"
    /\ Len(input) = 2
    /\ error_count = 2
    /\ row_entries = <<>>
    /\ result = "Ok"
    /\ s_result = "Ok"

\* The outlier set of the specification for the given tables.
OutlierRule(t, keys) ==
    LET q1 == t.stats.q1
        q3 == t.stats.q3
        flagged == {t.outlier_lengths[k] : k \in 1..Len(t.outlier_lengths)}
    IN  /\ flagged = {L \in keys : 2 * L > 2 * q3 + 3 * (q3 - q1)}
        /\ \A k \in 1..(Len(t.outlier_lengths) - 1) :
               t.outlier_lengths[k] > t.outlier_lengths[k + 1]
        /\ \A L \in keys : 2 * L = 2 * q3 + 3 * (q3 - q1) => L \notin flagged
        /\ \A L \in keys :
               (2 * L < 2 * q1 - 3 * (q3 - q1) /\ 2 * L <= 2 * q3 + 3 * (q3 - q1))
               => L \notin flagged
        /\ (q1 = 20 /\ q3 = 30) =>
               /\ 1000 \in keys => 1000 \in flagged
               /\ 40 \notin flagged

\* C8 (outlier set): in both programs the flagged lengths are exactly the
\* distinct lengths of the frequency table above q3 + 1.5*(q3 - q1), in
\* strictly descending order; a length equal to the threshold or below the
\* lower bound is not flagged; with q1 = 20 and q3 = 30, 1000 is flagged
\* and 40 is not.
C8_OutlierSet ==
    /\ pc = "done" => OutlierRule(tables, DOMAIN row_length_counts)
    /\ s_pc = "done" => OutlierRule(s_tables, DOMAIN s_acc.row_length_counts)

\* C8 witness: the example's quartiles with 1000 flagged.
C8_Witness ==
    /\ pc = "done"
    /\ s_pc = "done"
    /\ all_row_lengths = <<10, 20, 20, 30, 1000>>
    /\ tables.stats.q1 = 20
    /\ tables.stats.q3 = 30
    /\ tables.outlier_lengths = <<1000>>
    /\ s_tables.outlier_lengths = <<1000>>

\* ceil(c / CHARS_PER_PAGE): the least k with k * CHARS_PER_PAGE >= c.
CeilPages(c) ==
    CHOOSE k \in 0..(c \div CHARS_PER_PAGE + 1) :
        /\ k * CHARS_PER_PAGE >= c
        /\ \A j \in 0..(k - 1) : j * CHARS_PER_PAGE < c

\* The page buckets of a pages report.
Buckets(page_vec) == {page_vec[k][1] : k \in 1..Len(page_vec)}

\* The page-bucket rule for the rows with the given lengths.
PageRule(page_vec, lengths) ==
    /\ Buckets(page_vec) = {CeilPages(lengths[k]) : k \in 1..Len(lengths)}
    /\ \A k \in 1..Len(lengths) :
           LET c == lengths[k]
           IN  /\ (PageBucket(c) = 0) <=> (c = 0)
               /\ (PageBucket(c) = 1) <=> (1 <= c /\ c <= 3000)
               /\ c = 3001 => PageBucket(c) = 2
               /\ PageBucket(c) <= PageBucket(c + 1)
               /\ PageBucket(c) \in Buckets(page_vec)

C10_ModeEquivalence ==
    (pc = "done" /\ s_pc = "done") =>
        /\ s_tables.stats = tables.stats
        /\ s_tables.length_counts_vec = tables.length_counts_vec
        /\ s_tables.page_counts_vec = tables.page_counts_vec
        /\ s_acc.row_length_counts = row_length_counts
        /\ s_acc.row_indices_map = file_indices_map
        /\ LET kept == SelectSeq(s_acc.row_report, LAMBDA r : r.ok)
           IN  [k \in 1..Len(kept) |-> <<kept[k].row_index, kept[k].char_count>>]
               = [k \in 1..Len(row_entries) |-> <<row_entries[k][1], row_entries[k][3]>>]

\* Some worker thread of the parallel analysis has panicked.
AnyWorkerPanicked == \E w \in 1..Len(handles) : handles[w].st = "panicked"

\* C11 (worker fault is fatal, no partial output): once a worker thread has
\* panicked the analysis never returns a result (neither Ok nor Err), it
\* never gets past the join, and no report file is created and no table or
\* statistic is derived, whatever the other threads did and in whatever
\* order the threads ended.
C11_WorkerFaultFatal ==
    AnyWorkerPanicked =>
        /\ result \in {"none", "panic"}
        /\ pc \in {"spawn", "join", "panicked"}
        /\ files = NoFiles
        /\ row_entries = <<>>
        /\ all_row_lengths = <<>>
        /\ tables = NoTables

\* C11 witness: the join has collected the result of the first thread and
\* then met the handle of a panicked one; the analysis ended in a panic
\* with no report file.
C11_Witness ==
    /\ pc = "panicked"
    /\ result = "panic"
    /\ Len(handles) >= 3
    /\ handles[1].st = "finished"
    /\ handles[2].st = "panicked"
    /\ handles[3].st = "finished"
    /\ joined = 1
    /\ total_chars > 0
    /\ finish_order[1] = 3
    /\ files = NoFiles

\* C12 (fatal I/O failure leaves no partial output) as claimed: when an
\* analysis has returned an error, none of its report files exists with
\* content.
C12_NoPartialOutput ==
    /\ result = "Err" => \A f \in ReportFiles : files[f] # "content"
    /\ s_result = "Err" => \A f \in ReportFiles : s_files[f] # "content"

\* The positions of the directory's entries whose analysis was called.
Attempted == {dir_attempted[k] : k \in 1..Len(dir_attempted)}

\* C13 (directory mode isolates failures) as claimed: when process_directory
\* has ended without a failure of the directory listing, a CSV file that
\* comes after a file whose analysis failed (error result or worker fault)
\* has been analysed too, and a returned count is the number of files
\* whose analysis succeeded.
C13_DirectoryIsolation ==
    dir_result # "none" =>
        /\ \A i \in Attempted : \A j \in 1..Len(dir_entries) :
               (/\ i < j
                /\ dir_entries[i] \in {"csv_err", "csv_panic"}
                /\ IsCsv(dir_entries[j])
                /\ \A k \in 1..j : dir_entries[k] # "entry_err")
               => j \in Attempted
        /\ dir_result = "Ok" =>
               processed_count
               = Cardinality({i \in 1..Len(dir_entries) : dir_entries[i] = "csv_ok"})

\* The per-row report of the streaming analysis has a row for line i.
StreamReportHasRow(i) ==
    \E k \in 1..Len(s_acc.row_report) : s_acc.row_report[k].row_index = i - 1

\* The per-row report of the parallel analysis has a row for line i.
ParallelReportHasRow(i) ==
    \E k \in 1..Len(row_entries) : row_entries[k][1] = i

\* C14 (read-failure representation is uniform across modes) as claimed:
\* for a line that failed to read, the per-row reports of the two modes
\* either both have a row (a placeholder) or both have none.
C14_UniformReadFailure ==
    (pc = "done" /\ s_pc = "done") =>
        \A i \in 1..Len(input) :
            ~input[i].ok => (StreamReportHasRow(i) <=> ParallelReportHasRow(i))

\* C15 (row identity) as claimed: in both modes the identifier recorded for
\* an ingested line is its 1-based physical line number, so identifiers
\* are unique, strictly increasing and not shifted by failed reads.
C15_RowIdentity ==
    /\ \A k \in 1..Len(all_lines) :
           /\ all_lines[k][1] \in 1..Len(input)
           /\ input[all_lines[k][1]] = all_lines[k][2]
           /\ k > 1 => all_lines[k - 1][1] < all_lines[k][1]
    /\ pc \in {"reports", "done"} =>
           [k \in 1..Len(row_entries) |-> row_entries[k][1]]
           = KeysAscending(OkRows(input))
    /\ \A k \in 1..Len(s_acc.row_report) :
           /\ s_acc.row_report[k].row_index = k
           /\ input[s_acc.row_report[k].row_index].ok = s_acc.row_report[k].ok

\* Every chunk of the run, in order: those moved into threads that have
\* not run yet, then those still to be handed out.
AllChunks == [w \in 1..Len(handles) |-> handles[w].chunk] \o chunks

\* Every chunk but the last holds `size` lines, the last from 1 to `size`.
ChunksOfSize(cs, size) ==
    \A k \in 1..Len(cs) :
        IF k < Len(cs) THEN Len(cs[k]) = size
        ELSE Len(cs[k]) >= 1 /\ Len(cs[k]) <= size

\* ceil(a / b): the least k with k * b >= a.
CeilDiv(a, b) == CHOOSE k \in 0..a : k * b >= a /\ \A j \in 0..(k - 1) : j * b < a

\* C16 (chunk size) as claimed: the chunks of total_rows ingested rows are
\* made with a chunk size of exactly ceil(total_rows / W).
C16_ChunkSizeCeil ==
    pc \in {"spawn", "join"} =>
        ChunksOfSize(AllChunks, CeilDiv(Len(all_lines), workers))

\* C16 amended (chunk size): the chunks of total_rows ingested rows are made
\* with a chunk size of exactly floor(total_rows / W) + 1; every chunk but
\* the last has that many rows and the last has from 1 to that many.
C16_ChunkSizeFloorPlusOne ==
    pc \in {"spawn", "join"} =>
        ChunksOfSize(AllChunks, (Len(all_lines) \div workers) + 1)

\* C16 witness: WORKER_THREADS rows for WORKER_THREADS workers are handed
\* out in chunks of two rows, where the rounded-up quotient is one.
C16_Witness ==
    /\ pc = "join"
    /\ workers = WORKER_THREADS
    /\ Len(all_lines) = WORKER_THREADS
    /\ Len(handles) = 4
    /\ \A w \in 1..Len(handles) : Len(handles[w].chunk) = 2

\* C17 (chunk count bounds) as claimed: with W = WORKER_THREADS workers the
\* number of chunks, and of threads spawned, is at least 1 and at most W
\* for every total_rows >= 0.
C17_ChunkCountBounds ==
    workers = WORKER_THREADS =>
        /\ pc = "spawn" => (1 <= Len(AllChunks) /\ Len(AllChunks) <= workers)
        /\ pc = "join" => (1 <= Len(handles) /\ Len(handles) <= workers)

\* C17 amended (chunk count bounds): the number of chunks, and of threads
\* spawned, is at most W for every total_rows; it is at least 1 when
\* total_rows >= 1 and it is 0 when total_rows = 0.
C17_ChunkCountAtMostW ==
    /\ pc = "spawn" =>
           /\ Len(AllChunks) <= workers
           /\ (Len(AllChunks) = 0) <=> (Len(all_lines) = 0)
    /\ pc = "join" =>
           /\ Len(handles) <= workers
           /\ (Len(handles) = 0) <=> (Len(all_lines) = 0)

\* C17 witness: fewer rows than workers, one thread spawned per row.
C17_Witness ==
    /\ pc = "join"
    /\ workers = WORKER_THREADS
    /\ Len(all_lines) = 7
    /\ Len(handles) = 7

\* C18 (length-frequency table): after the pass over the ordered Corpus the
\* table has one entry per distinct char_count, whose count is the number
\* of rows of that length; the counts sum to total_rows; the file rows
\* listed for a length are the rows of that length in ascending order; and
\* the k-th listed data index is the data_index of the k-th listed row.
C18_LengthFrequencyTable ==
    pc = "done" =>
        LET lengths == {row_entries[k][3] : k \in 1..Len(row_entries)}
            rowsOf(c) == {k \in 1..Len(row_entries) : row_entries[k][3] = c}
            vec == tables.length_counts_vec
        IN  /\ DOMAIN row_length_counts = lengths
            /\ DOMAIN file_indices_map = lengths
            /\ DOMAIN data_indices_map = lengths
            /\ \A c \in lengths : row_length_counts[c] = Cardinality(rowsOf(c))
            /\ Len(vec) = Cardinality(lengths)
            /\ \A c \in lengths :
                   \E k \in 1..Len(vec) : vec[k] = <<c, Cardinality(rowsOf(c))>>
            /\ SumSeq([k \in 1..Len(vec) |-> vec[k][2]]) = Len(row_entries)
            /\ \A c \in lengths :
                   LET fr == file_indices_map[c]
                       di == data_indices_map[c]
                   IN  /\ {fr[k] : k \in 1..Len(fr)} = {row_entries[k][1] : k \in rowsOf(c)}
                       /\ \A k \in 1..(Len(fr) - 1) : fr[k] < fr[k + 1]
                       /\ Len(di) = Len(fr)
                       /\ \A k \in 1..Len(fr) :
                              \E j \in rowsOf(c) : /\ row_entries[j][1] = fr[k]
                                                   /\ row_entries[j][2] = di[k]

\* C18 witness: a table of two lengths, one of them shared by two rows
\* that are not neighbours in the file.
C18_Witness ==
    /\ pc = "done"
    /\ Len(row_entries) = 3
    /\ file_indices_map = (0 :> <<3>>) @@ (20 :> <<1, 4>>)
    /\ data_indices_map = (0 :> <<0>>) @@ (20 :> <<-1, 1>>)
    /\ tables.length_counts_vec = <<<<20, 2>>, <<0, 1>>>>

\* C19 (join barrier): the sort, the data_index assignment, the statistics
\* and the report files come only after every spawned thread has ended and
\* has been joined; while a thread is running nothing of them exists; the
\* join starts only when every chunk has its thread.
C19_JoinBarrier ==
    /\ pc \in {"sort", "index", "reports", "done"} =>
           /\ joined = Len(handles)
           /\ \A w \in 1..Len(handles) : handles[w].st = "finished"
    /\ (\E w \in 1..Len(handles) : handles[w].st = "running") =>
           /\ pc \in {"spawn", "join"}
           /\ row_entries = <<>>
           /\ all_row_lengths = <<>>
           /\ tables = NoTables
           /\ files = NoFiles
           /\ result = "none"
    /\ pc = "join" => chunks = <<>>

\* C19 witness: the join loop has ended over three threads of which the
\* last spawned ended first, and the sort is next.
C19_Witness ==
    /\ pc = "sort"
    /\ Len(handles) = 3
    /\ joined = 3
    /\ finish_order = <<3, 2, 1>>
    /\ \A w \in 1..3 : handles[w].st = "finished"
    /\ row_entries = <<>>

RECURSIVE Flatten(_)
Flatten(ss) == IF ss = <<>> THEN <<>> ELSE Head(ss) \o Flatten(Tail(ss))

\* The file rows a thread owns: those of its chunk while it has not run,
\* those of the entries it returned afterwards.
RowsOfHandle(h) ==
    IF h.st = "running" THEN [k \in 1..Len(h.chunk) |-> h.chunk[k][1]]
    ELSE [k \in 1..Len(h.entries) |-> h.entries[k].file_row]

\* The chunks, one after the other, are the ingested rows in file order:
\* they are contiguous, disjoint, ordered inside, and cover every row.
ChunksPartitionRows ==
    pc # "read" =>
        Flatten([w \in 1..Len(handles) |-> RowsOfHandle(handles[w])]
                \o [k \in 1..Len(chunks) |-> [j \in 1..Len(chunks[k]) |-> chunks[k][j][1]]])
        = [k \in 1..Len(all_lines) |-> all_lines[k][1]]

\* Each ingested row is exactly once in the concatenated result.
EachRowOnce ==
    pc \in {"sort", "index", "reports", "done"} =>
        /\ Len(all_row_entries) = Len(all_lines)
        /\ {all_row_entries[k].file_row : k \in 1..Len(all_row_entries)}
           = {all_lines[k][1] : k \in 1..Len(all_lines)}

\* A step in which thread w ends gives w the result of its own chunk and
\* leaves every other thread's handle, the chunks and the collected result
\* as they were.
WorkerStepIsLocal ==
    \A w \in 1..Len(handles) :
        (/\ w \in 1..Len(handles')
         /\ handles[w].st = "running"
         /\ handles'[w].st = "finished")
        => /\ handles'[w].entries = WorkerLoop(handles[w].chunk, <<>>, 0).entries
           /\ handles'[w].chars = WorkerLoop(handles[w].chunk, <<>>, 0).chars
           /\ \A v \in (1..Len(handles)) \ {w} : handles'[v] = handles[v]
           /\ UNCHANGED <<chunks, all_row_entries, total_chars, all_lines>>

\* C20 (disjoint ownership): the chunks handed to the threads are
\* contiguous, pairwise disjoint, in file order inside, and cover every
\* ingested row, so each row is processed by one thread and is once in the
\* concatenated result; a thread's step reads its own chunk only and
\* writes its own result only.
C20_DisjointOwnership ==
    /\ [](ChunksPartitionRows /\ EachRowOnce)
    /\ [][WorkerStepIsLocal]_vars

\* C20 witness: four rows in two chunks, the first thread has returned its
\* entries and the second still owns its chunk.
C20_Witness ==
    /\ pc = "join"
    /\ Len(all_lines) = 4
    /\ Len(handles) = 2
    /\ handles[1].st = "finished"
    /\ Len(handles[1].entries) = 3
    /\ handles[2].st = "running"
    /\ Len(handles[2].chunk) = 1

\* ------------------------------------------------- lengths sharing a page

\* The whole run of both programs on short files whose lines have lengths
\* that fall into the same page (10 and 20), into the next one (3001), or
\* that fail to read.
MaxPageRows == 3

PageLens == {10, 20, 3001}

InitPages ==
    /\ input \in SeqsUpTo({OkLine(c) : c \in PageLens} \cup {ErrLine}, MaxPageRows)
    /\ workers = WORKER_THREADS
    /\ pc = "read"
    /\ idx = 0
    /\ all_lines = <<>>
    /\ error_count = 0
    /\ chunks = <<>>
    /\ handles = <<>>
    /\ finish_order = <<>>
    /\ joined = 0
    /\ all_row_entries = <<>>
    /\ total_chars = 0
    /\ row_entries = <<>>
    /\ ReportsUntouched
    /\ StreamUntouched
    /\ DirectoryIdle

NextPages ==
    \/ ReadLine
    \/ MakeChunks
    \/ Spawn
    \/ SpawnDone
    \/ \E w \in 1..Len(handles) : WorkerRun(w)
    \/ Join
    \/ JoinDone
    \/ Sort
    \/ Index
    \/ Reports
    \/ StreamOpen
    \/ StreamReadLine
    \/ StreamReports

SpecPages == InitPages /\ [][NextPages]_vars

\* The values of a map, summed.
SumValues(map) ==
    LET ks == KeysAscending(DOMAIN map)
    IN  SumSeq([k \in 1..Len(ks) |-> map[ks[k]]])

\* The rows of row_entries whose length rounds up to `pages` pages.
RowsOfPage(pages) ==
    {k \in 1..Len(row_entries) : CeilPages(row_entries[k][3]) = pages}

\* C21 (page table derivation): once the parallel analysis is done, the
\* page counts of the outlier reports, regrouped from the length groups of
\* file_indices_map, are bucket by bucket the counts of the pages report,
\* which buckets every row; both count every row with that many pages, both
\* sum to the number of rows, and no iteration order of the map gives
\* other counts.
C21_PageTableDerivation ==
    pc = "done" =>
        LET vec == tables.page_counts_vec
        IN  /\ DOMAIN page_counts = Buckets(vec)
            /\ Len(vec) = Cardinality(DOMAIN page_counts)
            /\ \A k \in 1..Len(vec) : page_counts[vec[k][1]] = vec[k][2]
            /\ \A pages \in DOMAIN page_counts :
                   page_counts[pages] = Cardinality(RowsOfPage(pages))
            /\ SumValues(page_counts) = Len(row_entries)
            /\ SumSeq([k \in 1..Len(vec) |-> vec[k][2]]) = Len(row_entries)
            /\ \A order \in IterationOrders(DOMAIN file_indices_map) :
                   PageCounts(PageIndicesMap(file_indices_map, order, EmptyMap))
                       = page_counts

\* C21 witness: rows of 10, 3001 and 20 characters; the length groups 10
\* and 20 are regrouped into the one-page bucket.
C21_Witness ==
    /\ pc = "done"
    /\ DOMAIN file_indices_map = {10, 20, 3001}
    /\ page_counts = (1 :> 2) @@ (2 :> 1)
    /\ tables.page_counts_vec = <<<<1, 2>>, <<2, 1>>>>

\* The rule of the pages report `t` for the rows with the given lengths.
PagesReportRule(t, lengths) ==
    LET vec == t.page_counts_vec
        pct == t.page_percentages
        rowsOf(pages) == {k \in 1..Len(lengths) : CeilPages(lengths[k]) = pages}
    IN  /\ \A k \in 1..(Len(vec) - 1) : vec[k][1] < vec[k + 1][1]
        /\ Buckets(vec) = {CeilPages(lengths[k]) : k \in 1..Len(lengths)}
        /\ Len(pct) = Len(vec)
        /\ \A k \in 1..Len(vec) :
               /\ vec[k][2] = Cardinality(rowsOf(vec[k][1]))
               /\ pct[k].kind = "finite"
               /\ pct[k].num = 100 * Cardinality(rowsOf(vec[k][1]))
               /\ pct[k].den = Len(lengths)
        /\ lengths # <<>> =>
               /\ SumSeq([k \in 1..Len(vec) |-> vec[k][2]]) = Len(lengths)
               /\ SumSeq([k \in 1..Len(pct) |-> pct[k].num]) = 100 * Len(lengths)

\* C22 (pages report order and percentages): in both programs the pages
\* report has one row per occurring page bucket, in strictly ascending
\* bucket order; the percentage of a row is its count times 100 over the
\* number of rows, and for a non-empty file the counts sum to the number of
\* rows and the percentages to 100.
C22_PagesReport ==
    /\ pc = "done" => PagesReportRule(tables, all_row_lengths)
    /\ s_pc = "done" => PagesReportRule(s_tables, s_acc.all_row_lengths)

\* C22 witness: four rows in three page buckets, reported by both programs.
C22_Witness ==
    /\ pc = "done"
    /\ s_pc = "done"
    /\ tables.page_counts_vec = <<<<0, 1>>, <<1, 2>>, <<2, 1>>>>
    /\ s_tables.page_counts_vec = <<<<0, 1>>, <<1, 2>>, <<2, 1>>>>
    /\ tables.page_percentages[2] = [kind |-> "finite", num |-> 200, den |-> 4]

\* len^2 times the sum of the squared differences of the lengths from
\* their mean, taken over the list as it stands.
SquaredDeviations(lengths) ==
    LET n == Len(lengths)
        sum == SumSeq(lengths)
    IN  SumSeq([k \in 1..n |-> (n * lengths[k] - sum) * (n * lengths[k] - sum)])

\* The mean and the variance of `st` are those of the non-empty `lengths`:
\* mean = sum / n, and variance = (SquaredDeviations / n^2) / n, the
\* squared differences from the mean divided by n.
MeanVarianceRule(st, lengths) ==
    LET n == Len(lengths)
    IN  /\ st.mean[2] = n
        /\ st.mean[1] = SumSeq(lengths)
        /\ st.variance[2] = n * n * n
        /\ st.variance[1] = SquaredDeviations(lengths)
        /\ (\A k \in 1..n : lengths[k] = lengths[1]) <=> st.variance[1] = 0

\* The lengths 10, 20, 20, 30, 1000 in some order.
IsExampleList(lengths) ==
    /\ Len(lengths) = 5
    /\ SortedCopy(lengths) = <<10, 20, 20, 30, 1000>>

\* C23 (mean and standard deviation): for every non-empty list of n
\* lengths that reaches calculate_statistics, in either program, mean * n
\* is the sum of the lengths and the variance whose square root is std_dev
\* is the sum of the squared differences from the mean divided by n; for
\* 10, 20, 20, 30, 1000 the mean is 216 and the variance 153704.
C23_MeanAndVariance ==
    /\ (pc = "done" /\ all_row_lengths # <<>>) =>
           /\ MeanVarianceRule(tables.stats, all_row_lengths)
           /\ IsExampleList(all_row_lengths) =>
                  /\ tables.stats.mean[1] = 216 * tables.stats.mean[2]
                  /\ tables.stats.variance[1] = 153704 * tables.stats.variance[2]
    /\ (s_pc = "done" /\ s_acc.all_row_lengths # <<>>) =>
           MeanVarianceRule(s_tables.stats, s_acc.all_row_lengths)

\* C23 witness: the statistics of 1000, 20, 10, 30, 20.
C23_Witness ==
    /\ pc = "done"
    /\ all_row_lengths = <<1000, 20, 10, 30, 20>>
    /\ tables.stats.mean = <<1080, 5>>
    /\ tables.stats.variance = <<19213000, 125>>

\* ------------------------------------------------------- fair scheduling

\* The steps of the thread that calls analyze_csv_row_lengths, the failing
\* I/O operations included.
MainThread ==
    \/ ReadLine
    \/ OpenFails
    \/ MakeChunks
    \/ Spawn
    \/ SpawnDone
    \/ Join
    \/ JoinDone
    \/ Sort
    \/ Index
    \/ Reports
    \/ ReportsFail

\* The closure of the w-th spawned thread.
WorkerThread(w) == w <= Len(handles) /\ WorkerRun(w)

MaxFairLines == 3

InitFair ==
    /\ input \in SeqsUpTo({OkLine(c) : c \in FaultLineLens} \cup {ErrLine}, MaxFairLines)
    /\ workers \in WorkerCounts
    /\ pc = "read"
    /\ idx = 0
    /\ all_lines = <<>>
    /\ error_count = 0
    /\ chunks = <<>>
    /\ handles = <<>>
    /\ finish_order = <<>>
    /\ joined = 0
    /\ all_row_entries = <<>>
    /\ total_chars = 0
    /\ row_entries = <<>>
    /\ ReportsUntouched
    /\ StreamUntouched
    /\ DirectoryIdle

NextFair ==
    \/ ReadLine
    \/ OpenFails
    \/ MakeChunks
    \/ Spawn
    \/ SpawnDone
    \/ \E w \in 1..Len(handles) : WorkerRun(w)
    \/ Join
    \/ JoinDone
    \/ Sort
    \/ Index
    \/ Reports
    \/ ReportsFail

\* The parallel analysis with I/O failures, under the scheduling an
\* operating system gives: the calling thread and each spawned thread keep
\* being run while they have a step to take.  A join() on a thread that is
\* still running is not a step: the caller is blocked.
SpecFair ==
    /\ InitFair
    /\ [][NextFair]_vars
    /\ WF_vars(MainThread)
    /\ \A w \in 1..WORKER_THREADS : WF_vars(WorkerThread(w))

\* The analysis has ended, every spawned thread has run to its end, and a
\* run that ended with Ok has joined them all.
Terminated ==
    /\ result \in {"Ok", "Err"}
    /\ \A w \in 1..Len(handles) : handles[w].st = "finished"
    /\ result = "Ok" => joined = Len(handles)

\* No step takes a spawned thread out of the running state except to
\* finished, and no step takes a handle away.
NoCancel ==
    /\ Len(handles') >= Len(handles)
    /\ \A w \in 1..Len(handles) :
           /\ handles[w].st = "running" => handles'[w].st \in {"running", "finished"}
           /\ handles[w].st = "finished" => handles'[w] = handles[w]

\* C24 (termination): no step cancels a spawned thread, and under fair
\* scheduling the analysis ends with Ok or Err with every spawned thread
\* run to its end and joined.
C24_Termination ==
    /\ <>Terminated
    /\ [][NoCancel]_vars

\* C24 witness: the analysis has ended with Ok after three threads, the
\* last spawned of which finished first.
C24_Witness ==
    /\ Terminated
    /\ pc = "done"
    /\ result = "Ok"
    /\ Len(handles) = 3
    /\ finish_order[1] = 3

\* The rows of `lengths` above q3 + 1.5 * (q3 - q1) of `st`; the comparison
\* is doubled to stay in the integers.
RowsAboveUpper(st, lengths) ==
    {k \in 1..Len(lengths) : 2 * lengths[k] > 2 * st.q3 + 3 * (st.q3 - st.q1)}

\* C25 (outlier row total): in both programs the reported total of rows
\* above the outlier threshold, summed from the frequency-table counts of
\* the flagged lengths, is the number of rows whose char_count is above
\* q3 + 1.5 * (q3 - q1), and is at most the number of rows.
C25_OutlierRowTotal ==
    /\ pc = "done" =>
           /\ tables.total_outliers
                  = Cardinality(RowsAboveUpper(tables.stats, all_row_lengths))
           /\ tables.total_outliers <= Len(row_entries)
    /\ s_pc = "done" =>
           /\ s_tables.total_outliers
                  = Cardinality(RowsAboveUpper(s_tables.stats, s_acc.all_row_lengths))
           /\ s_tables.total_outliers <= s_acc.total_rows

\* C25 witness: nine rows, two of them of the one flagged length.
C25_Witness ==
    /\ pc = "done"
    /\ s_pc = "done"
    /\ Len(row_entries) = 9
    /\ tables.outlier_lengths = <<1000>>
    /\ tables.total_outliers = 2
    /\ s_tables.total_outliers = 2

\* min <= q1 <= median <= q3 <= max.
QuantilesOrdered(st) ==
    /\ st.min <= st.q1
    /\ st.q1 <= st.median
    /\ st.median <= st.q3
    /\ st.q3 <= st.max

\* C26 (quantile ordering): for every non-empty list of lengths handed to
\* calculate_statistics, in either program, min <= q1 <= median <= q3 <=
\* max, so q3 - q1 and max - min, which the reports compute in usize, are
\* not negative.
C26_QuantileOrdering ==
    /\ (pc = "done" /\ all_row_lengths # <<>>) =>
           /\ QuantilesOrdered(tables.stats)
           /\ tables.stats.q3 - tables.stats.q1 >= 0
           /\ tables.stats.max - tables.stats.min >= 0
    /\ (s_pc = "done" /\ s_acc.all_row_lengths # <<>>) =>
           /\ QuantilesOrdered(s_tables.stats)
           /\ s_tables.stats.q3 - s_tables.stats.q1 >= 0
           /\ s_tables.stats.max - s_tables.stats.min >= 0

\* C26 witness: five distinct lengths out of order; the five statistics
\* are five different values.
C26_Witness ==
    /\ pc = "done"
    /\ all_row_lengths = <<40, 1000, 10, 30, 20>>
    /\ tables.stats.min = 10
    /\ tables.stats.q1 = 20
    /\ tables.stats.median = 30
    /\ tables.stats.q3 = 40
    /\ tables.stats.max = 1000

\* Every position calculate_statistics reads in a sorted copy of n >= 1
\* elements exists.
IndicesInRange(n) ==
    /\ SortedIndicesUsed(n) \subseteq 0..(n - 1)
    /\ n % 2 = 0 => n >= 2 /\ n \div 2 - 1 >= 0
    /\ n % 4 = 0 => n >= 4 /\ n \div 4 - 1 >= 0
    /\ (3 * n) \div 4 <= n - 1
    /\ (3 * n) % 4 = 0 => (3 * n) \div 4 - 1 >= 0

\* C27 (index safety of calculate_statistics): for every non-empty list
\* of n lengths that reaches calculate_statistics, in either program, every
\* position read in the sorted copy is within 0..n-1: n/2 - 1 is read only
\* for n >= 2, n/4 - 1 only for n >= 4, 3n/4 is at most n - 1 and 3n/4 - 1
\* is read only when it is not negative.
C27_IndexSafety ==
    /\ (pc = "done" /\ all_row_lengths # <<>>) =>
           IndicesInRange(Len(all_row_lengths))
    /\ (s_pc = "done" /\ s_acc.all_row_lengths # <<>>) =>
           IndicesInRange(Len(s_acc.all_row_lengths))

\* C27 witness: four lengths, where all three averaging branches are taken
\* and every position 0..3 is read.
C27_Witness ==
    /\ pc = "done"
    /\ s_pc = "done"
    /\ Len(all_row_lengths) = 4
    /\ SortedIndicesUsed(4) = 0..3
    /\ tables.stats.q1 = (OrderStat(all_row_lengths, 0) + OrderStat(all_row_lengths, 1)) \div 2
    /\ tables.stats.min < tables.stats.q1

\* The list is strictly ascending by file_row.
AscendingByFileRow(entries) ==
    \A k \in 1..(Len(entries) - 1) : entries[k].file_row < entries[k + 1].file_row

\* C28 (ordered join): the handles are joined in spawn order, so whatever
\* the order in which the threads finished, the list collected in the join
\* loop is strictly ascending by file_row at every point of the loop and
\* when the sort is reached, and the sort leaves it as it is.
C28_OrderedJoin ==
    /\ pc \in {"join", "sort"} => AscendingByFileRow(all_row_entries)
    /\ pc = "sort" => SortByFileRow(all_row_entries) = all_row_entries

\* C28 witness: four threads that finished in the reverse of their spawn
\* order, joined, the sort not yet run.
C28_Witness ==
    /\ pc = "sort"
    /\ Len(handles) = 4
    /\ finish_order = <<4, 3, 2, 1>>
    /\ [k \in 1..4 |-> all_row_entries[k].file_row] = <<1, 2, 3, 4>>

\* The page maps built with the two hash maps yielding their keys in
\* file_order and data_order: the same buckets, lists of one length.
PageListsSameShape(file_order, data_order) ==
    LET pf == PageIndicesMap(file_indices_map, file_order, EmptyMap)
        pd == PageIndicesMap(data_indices_map, data_order, EmptyMap)
    IN  /\ DOMAIN pf = DOMAIN pd
        /\ \A pages \in DOMAIN pf : Len(pf[pages]) = Len(pd[pages])

\* The k-th data index of every bucket is the data_index of the row named
\* by the k-th file row.
PageListsAligned(file_order, data_order) ==
    LET pf == PageIndicesMap(file_indices_map, file_order, EmptyMap)
        pd == PageIndicesMap(data_indices_map, data_order, EmptyMap)
    IN  \A pages \in DOMAIN pf :
            \A k \in 1..Len(pf[pages]) :
                \E j \in 1..Len(row_entries) :
                    /\ row_entries[j][1] = pf[pages][k]
                    /\ row_entries[j][2] = pd[pages][k]

\* The file rows of every bucket are listed in ascending order.
PageListsAscending(file_order) ==
    LET pf == PageIndicesMap(file_indices_map, file_order, EmptyMap)
    IN  \A pages \in DOMAIN pf :
            \A k \in 1..(Len(pf[pages]) - 1) : pf[pages][k] < pf[pages][k + 1]

\* C29 (page-bucket example alignment, parallel mode): once the parallel
\* analysis is done, for every iteration order of file_indices_map and of
\* data_indices_map the page section's file-row list and data-index list
\* of a bucket have the same length, the k-th data index belongs to the
\* row of the k-th file row, and the file rows ascend.
C29_PageExampleAlignment ==
    pc = "done" =>
        \A file_order \in IterationOrders(DOMAIN file_indices_map) :
            \A data_order \in IterationOrders(DOMAIN data_indices_map) :
                /\ PageListsSameShape(file_order, data_order)
                /\ PageListsAligned(file_order, data_order)
                /\ PageListsAscending(file_order)

\* The row_index values the streaming per-row report wrote for the
\* readable lines whose length rounds up to `pages` pages.
ReportedRowsOfPage(pages) ==
    {s_acc.row_report[k].row_index :
        k \in {j \in 1..Len(s_acc.row_report) :
                  /\ s_acc.row_report[j].ok
                  /\ PageBucket(s_acc.row_report[j].char_count) = pages}}

\* The row_index values row_indices_map holds under the lengths that round
\* up to `pages` pages.
MappedRowsOfPage(pages) ==
    UNION {{s_acc.row_indices_map[c][k] : k \in 1..Len(s_acc.row_indices_map[c])} :
              c \in {x \in DOMAIN s_acc.row_indices_map : PageBucket(x) = pages}}

\* C30 (consistent row indices, streaming mode): once the streaming
\* analysis is done, the example row indices the outlier reports list for a
\* page bucket are the row_index values that the per-row report and
\* row_indices_map hold for the lines of that bucket, also when lines
\* failed to read.
C30_ConsistentRowIndices ==
    s_pc = "done" =>
        LET page_length_counts == StreamPageIndices(s_acc.all_row_lengths, 0, EmptyMap)
        IN  \A pages \in DOMAIN page_length_counts :
                LET examples == {page_length_counts[pages][k] :
                                    k \in 1..Len(page_length_counts[pages])}
                IN  /\ examples = ReportedRowsOfPage(pages)
                    /\ examples = MappedRowsOfPage(pages)

====
